---- MODULE Spec2Model ----
(***************************************************************************)
(* Model of src/client/component/profile_infos.cpp: the profile-info       *)
(* registry (profile_mapping), the local profile file, the distribution    *)
(* functions and the debounced PCache update.                              *)
(*                                                                         *)
(* Two execution contexts are modelled: "net" runs the public entry points *)
(* and the "profileInfo" message handler, "sched" runs the tasks given to  *)
(* the scheduler (clean_cached_profile_infos and the delayed PCache task). *)
(* utils::concurrency::container::access is a mutex acquire, the body and  *)
(* a release.                                                              *)
(*                                                                         *)
(* Time is not counted: a task given to scheduler::once(..., 5s) is queued *)
(* (once_tasks) and may start at any later point, so everything that can   *)
(* happen within the 5s delay can happen while the task is queued. The     *)
(* scheduler::loop task may start whenever the scheduler context is idle.  *)
(***************************************************************************)
EXTENDS Integers, Sequences, FiniteSets, TLC

VARIABLES
    isServer,         \* game::is_server(), fixed for the process
    serverRunning,    \* game::is_server_running()
    connected,        \* xuids of the connected clients (foreach_connected_client)
    profile_mapping,  \* the registry: xuid -> profile_info
    mutex,            \* owner of profile_mapping's mutex: "free", "net" or "sched"
    update_triggered, \* the static atomic_bool of schedule_pcache_update
    once_tasks,       \* number of delayed tasks given to scheduler::once and not started
    arms,             \* history: non-hosting calls of schedule_pcache_update in the current window
    fires,            \* history: PCache_DeleteEntries calls in the current window
    file,             \* players/user/profile_info
    lastReg,          \* history: the last registry access, when it was an upsert
    npc, nop, naddr, nid, ninfo, \* "net": position, entry point, arguments
    todo,             \* "net": entries the iteration has not visited yet
    log,              \* "net": what the running call did so far, in order
    result,           \* "net": value returned by get_profile_info
    after,            \* "net": lastReg as the lookup found it
    spc,              \* "sched": position
    xuids             \* "sched": result of get_connected_client_xuids

env    == <<isServer, serverRunning, connected>>
trig   == <<update_triggered, once_tasks, arms, fires>>
reg    == <<profile_mapping, lastReg>>
nframe == <<npc, nop, naddr, nid, ninfo, todo, log, result, after>>
sframe == <<spc, xuids>>
vars   == <<env, trig, reg, mutex, file, nframe, sframe>>

(* ------------------------------ data ---------------------------------- *)

\* steam::SteamUser()->GetSteamID().bits
Local == 1

\* xuids of the other participants
Peers == {2, 3}

Ids == {Local} \cup Peers

\* client_s::address of the client with xuid p
AddrOf(p) == 10 + p

Addrs == {AddrOf(p) : p \in Peers}

\* address of the party host (party::is_host)
HostAddr == 10

\* an address that is not the party host
OtherAddr == 20

\* cap of the history counter arms
MaxArms == 2

\* longest payload written / longest pre-existing file in the store specification
MaxDdl == 5
MaxFileLen == 9

\* sizeof(info.version), int32_t
VersionSize == 4

\* sizeof(version_size): version_size is a size_t, 8 bytes on the x64 target
SizeofVersionSize == 8

Pad(n, b) == [i \in 1..n |-> b]

\* profile_info values used by the protocol
Infos ==
    { [version |-> 2, ddl |-> <<>>],
      [version |-> 1, ddl |-> Pad(4, 7)] }

None == <<>>
Some(x) == <<x>>

\* int32_t <-> its 4 bytes (little endian, two's complement; \div floors)
EncodeVersion(v) ==
    << v % 256, (v \div 256) % 256, (v \div 65536) % 256, (v \div 16777216) % 256 >>

DecodeVersion(b) ==
    b[1] + 256 * b[2] + 65536 * b[3]
         + 16777216 * (IF b[4] >= 128 THEN b[4] - 256 ELSE b[4])

NoFile == [exists |-> FALSE, data |-> <<>>]

FileOf(bytes) == [exists |-> TRUE, data |-> bytes]

\* update_profile_info: version bytes followed by the raw payload
StoredBytes(info) == EncodeVersion(info.version) \o info.ddl

\* load_profile_info
load_profile_info(f) ==
    IF ~f.exists THEN None
    ELSE IF Len(f.data) < SizeofVersionSize THEN None
    ELSE Some([version |-> DecodeVersion(SubSeq(f.data, 1, VersionSize)),
               ddl     |-> SubSeq(f.data, VersionSize + 1, Len(f.data))])

\* mutant: an entry with a higher version is kept
Upsert_KeepNewer(profiles, user_id, info) ==
    IF user_id \in DOMAIN profiles /\ profiles[user_id].version > info.version
    THEN profiles
    ELSE [x \in (DOMAIN profiles) \cup {user_id} |->
             IF x = user_id THEN info ELSE profiles[x]]

\* profiles[user_id] = info
Upsert(profiles, user_id, info) ==
    [x \in (DOMAIN profiles) \cup {user_id} |->
        IF x = user_id THEN info ELSE profiles[x]]

\* profiles.find(user_id)
Find(profiles, user_id) ==
    IF user_id \in DOMAIN profiles THEN Some(profiles[user_id]) ELSE None

\* mutant: the test of the erase loop inverted
Retain_Inverted(profiles, keep) ==
    [x \in (DOMAIN profiles) \ keep |-> profiles[x]]

\* the erase loop of clean_cached_profile_infos
Retain(profiles, keep) ==
    [x \in (DOMAIN profiles) \cap keep |-> profiles[x]]

EmptyMap == [x \in {} |-> x]

Min(S) == CHOOSE x \in S : \A y \in S : x <= y

RECURSIVE SeqOf(_)
\* the clients in slot order
SeqOf(S) == IF S = {} THEN <<>> ELSE <<Min(S)>> \o SeqOf(S \ {Min(S)})

NoInfo == [version |-> 0, ddl |-> <<>>]

\* log entries: a network::send(to, "profileInfo", (id, info)) made by fn,
\* the upsert of (id, info), a call of schedule_pcache_update
SendEv(fn, to, id, info) == [ev |-> "send", fn |-> fn, to |-> to, id |-> id, info |-> info]

UpsertEv(id, info) == [ev |-> "upsert", fn |-> "", to |-> 0, id |-> id, info |-> info]

ArmEv == [ev |-> "arm", fn |-> "", to |-> 0, id |-> 0, info |-> NoInfo]

(* --------------------------- initial state ----------------------------- *)

IdleNet ==
    /\ npc = "idle" /\ nop = "none" /\ naddr = 0 /\ nid = 0
    /\ ninfo = NoInfo
    /\ todo = {} /\ log = <<>> /\ result = None /\ after = None

IdleSched == spc = "idle" /\ xuids = {}

\* state after static construction; the file is what an earlier run left
Init ==
    /\ isServer \in BOOLEAN
    /\ serverRunning = FALSE
    /\ connected = {}
    /\ profile_mapping = EmptyMap
    /\ mutex = "free"
    /\ update_triggered = FALSE
    /\ once_tasks = 0
    /\ arms = 0 /\ fires = 0
    /\ file \in {FileOf(StoredBytes(i)) : i \in Infos}
    /\ lastReg = None
    /\ IdleNet
    /\ IdleSched

(* ------------------------- "net": entry points ------------------------- *)

\* a call enters with its arguments and an empty log
Enter(op, pc, addr, id, info) ==
    /\ npc = "idle"
    /\ nop' = op /\ npc' = pc /\ naddr' = addr /\ nid' = id /\ ninfo' = info
    /\ todo' = {} /\ log' = <<>> /\ result' = None /\ after' = None
    /\ UNCHANGED <<env, trig, reg, mutex, file, sframe>>

\* only the position moves
Goto(pc) ==
    /\ npc' = pc
    /\ UNCHANGED <<nop, naddr, nid, ninfo, todo, log, result, after>>

\* mutant: add_profile_info without its test of user_id
Call_add_profile_info_NoSelfTest(id, info) ==
    Enter("add", "add_lock", 0, id, info)

\* add_profile_info as far as its test of user_id
Call_add_profile_info(id, info) ==
    Enter("add", IF id = Local THEN "done" ELSE "add_lock", 0, id, info)

\* get_profile_info(user_id) as far as its test of user_id
Call_get_profile_info(id) ==
    Enter("get", IF id = Local THEN "get_local" ELSE "get_lock", 0, id, ninfo)

Call_clear_profile_infos == Enter("clear", "clear_lock", 0, 0, ninfo)

Call_distribute_profile_infos_to_user(addr) ==
    Enter("sync", "sync_lock", addr, 0, ninfo)

\* mutant: the newcomer is ingested before the full sync
JoinSequence_IngestFirst == <<"add", "sync", "bcast">>

\* the three calls of add_and_distribute_profile_info, in order
JoinSequence == <<"sync", "add", "bcast">>

RECURSIVE JoinPc(_, _)
\* where the k-th call of add_and_distribute_profile_info begins
\* (add_profile_info returns at once for the local id)
JoinPc(k, id) ==
    IF k > Len(JoinSequence) THEN "done"
    ELSE IF JoinSequence[k] = "sync" THEN "sync_lock"
    ELSE IF JoinSequence[k] = "bcast" THEN "bcast"
    ELSE IF id = Local THEN JoinPc(k + 1, id) ELSE "add_lock"

\* where the call phase returns to
After(phase) ==
    IF nop # "join" THEN "done"
    ELSE JoinPc(1 + CHOOSE k \in 1..Len(JoinSequence) : JoinSequence[k] = phase, nid)

Call_add_and_distribute_profile_info(addr, id, info) ==
    Enter("join", JoinPc(1, id), addr, id, info)

Receive_profileInfo_NoHostTest(origin, id, info) ==
    /\ ~isServer
    /\ Enter("handler", IF id = Local THEN "done" ELSE "add_lock",
             origin, id, info)

\* the "profileInfo" handler, registered when game::is_client()
Receive_profileInfo(origin, id, info) ==
    /\ ~isServer
    /\ Enter("handler",
             IF origin # HostAddr THEN "done"
             ELSE IF id = Local THEN "done" ELSE "add_lock",
             origin, id, info)

\* update_profile_info
update_profile_info(info) ==
    /\ npc = "idle"
    /\ file' = FileOf(StoredBytes(info))
    /\ UNCHANGED <<env, trig, reg, mutex, nframe, sframe>>

\* the call returns
Return ==
    /\ npc = "done"
    /\ npc' = "idle" /\ nop' = "none" /\ naddr' = 0 /\ nid' = 0
    /\ ninfo' = NoInfo
    /\ todo' = {} /\ log' = <<>> /\ result' = None /\ after' = None
    /\ UNCHANGED <<env, trig, reg, mutex, file, sframe>>

\* mutant: access() without waiting for the mutex
Acquire_NoWait(ctx) ==
    /\ mutex' = ctx

\* profile_mapping.access(...) begins: the container's mutex is taken
Acquire(ctx) ==
    /\ mutex = "free"
    /\ mutex' = ctx

(* ---------------------- schedule_pcache_update ------------------------- *)

Cap(n) == IF n < MaxArms THEN n + 1 ELSE MaxArms

\* mutant: the flag is set but its previous value is not tested
schedule_pcache_update_NoExchange ==
    /\ arms' = IF isServer THEN arms ELSE IF update_triggered THEN Cap(arms) ELSE 1
    /\ fires' = IF update_triggered \/ isServer THEN fires ELSE 0
    /\ IF isServer
       THEN UNCHANGED <<update_triggered, once_tasks>>
       ELSE /\ update_triggered' = TRUE
            /\ once_tasks' = once_tasks + 1

\* is_server() || update_triggered.exchange(true): return; else scheduler::once
schedule_pcache_update ==
    /\ arms' = IF isServer THEN arms ELSE IF update_triggered THEN Cap(arms) ELSE 1
    /\ fires' = IF update_triggered \/ isServer THEN fires ELSE 0
    /\ IF isServer
       THEN UNCHANGED <<update_triggered, once_tasks>>
       ELSE IF update_triggered
            THEN UNCHANGED <<update_triggered, once_tasks>>
            ELSE /\ update_triggered' = TRUE
                 /\ once_tasks' = once_tasks + 1

(* ------------------------- add_profile_info ---------------------------- *)

AddLock ==
    /\ npc = "add_lock"
    /\ Acquire("net")
    /\ Goto("add_cs")
    /\ UNCHANGED <<env, trig, reg, file, sframe>>

\* profiles[user_id] = info; and the end of access()
AddUpsert ==
    /\ npc = "add_cs"
    /\ profile_mapping' = Upsert(profile_mapping, nid, ninfo)
    /\ lastReg' = Some([id |-> nid, info |-> ninfo])
    /\ mutex' = "free"
    /\ log' = Append(log, UpsertEv(nid, ninfo))
    /\ npc' = "add_arm"
    /\ UNCHANGED <<env, trig, file, sframe, nop, naddr, nid, ninfo, todo, result, after>>

AddArm ==
    /\ npc = "add_arm"
    /\ schedule_pcache_update
    /\ log' = Append(log, ArmEv)
    /\ npc' = After("add")
    /\ UNCHANGED <<env, reg, mutex, file, sframe, nop, naddr, nid, ninfo, todo, result, after>>

(* ----------------------- distribute_profile_info ----------------------- *)

\* mutant: distribute_profile_info without its test of user_id
Broadcast_NoSelfTest(user_id, info, clients) ==
    [i \in 1..Cardinality(clients) |->
        SendEv("broadcast", AddrOf(SeqOf(clients)[i]), user_id, info)]

\* the messages of one foreach_connected_client pass
Broadcast(user_id, info, clients) ==
    IF user_id = Local THEN <<>>
    ELSE [i \in 1..Cardinality(clients) |->
             SendEv("broadcast", AddrOf(SeqOf(clients)[i]), user_id, info)]

distribute_profile_info ==
    /\ npc = "bcast"
    /\ log' = log \o Broadcast(nid, ninfo, connected)
    /\ npc' = After("bcast")
    /\ UNCHANGED <<env, trig, reg, mutex, file, sframe, nop, naddr, nid, ninfo, todo, result, after>>

(* ------------------- distribute_profile_infos_to_user ------------------ *)

SyncLock ==
    /\ npc = "sync_lock"
    /\ Acquire("net")
    /\ todo' = DOMAIN profile_mapping
    /\ lastReg' = None
    /\ npc' = "sync_cs"
    /\ UNCHANGED <<env, trig, profile_mapping, file, sframe, nop, naddr, nid, ninfo, log, result, after>>

\* one iteration: distribute_profile_info_to_user(addr, entry.first, entry.second)
SyncSend ==
    /\ npc = "sync_cs"
    /\ \E id \in todo :
          /\ log' = Append(log, SendEv("to_user", naddr, id, profile_mapping[id]))
          /\ todo' = todo \ {id}
    /\ UNCHANGED <<env, trig, reg, mutex, file, sframe, npc, nop, naddr, nid, ninfo, result, after>>

SyncUnlock ==
    /\ npc = "sync_cs"
    /\ todo = {}
    /\ mutex' = "free"
    /\ Goto("sync_local")
    /\ UNCHANGED <<env, trig, reg, file, sframe>>

\* mutant: the local profile is sent whatever the role
LocalMessage_NoRoleTest(addr) ==
    IF load_profile_info(file) # None
    THEN <<SendEv("to_user", addr, Local, load_profile_info(file)[1])>>
    ELSE <<>>

\* what follows the iteration: the local profile, unless is_server()
LocalMessage(addr) ==
    IF ~isServer /\ load_profile_info(file) # None
    THEN <<SendEv("to_user", addr, Local, load_profile_info(file)[1])>>
    ELSE <<>>

SyncLocal ==
    /\ npc = "sync_local"
    /\ log' = log \o LocalMessage(naddr)
    /\ npc' = After("sync")
    /\ UNCHANGED <<env, trig, reg, mutex, file, sframe, nop, naddr, nid, ninfo, todo, result, after>>

(* --------------------------- get_profile_info -------------------------- *)

\* return get_profile_info();
GetLocal ==
    /\ npc = "get_local"
    /\ result' = load_profile_info(file)
    /\ npc' = "done"
    /\ UNCHANGED <<env, trig, reg, mutex, file, sframe, nop, naddr, nid, ninfo, todo, log, after>>

GetLock ==
    /\ npc = "get_lock"
    /\ Acquire("net")
    /\ Goto("get_cs")
    /\ UNCHANGED <<env, trig, reg, file, sframe>>

GetFind ==
    /\ npc = "get_cs"
    /\ result' = Find(profile_mapping, nid)
    /\ after' = lastReg
    /\ lastReg' = None
    /\ mutex' = "free"
    /\ npc' = "done"
    /\ UNCHANGED <<env, trig, profile_mapping, file, sframe, nop, naddr, nid, ninfo, todo, log>>

(* -------------------------- clear_profile_infos ------------------------ *)

ClearLock ==
    /\ npc = "clear_lock"
    /\ Acquire("net")
    /\ Goto("clear_cs")
    /\ UNCHANGED <<env, trig, reg, file, sframe>>

\* mutant: only the entries of disconnected clients are dropped
Cleared_KeepConnected(profiles) ==
    [x \in (DOMAIN profiles) \cap connected |-> profiles[x]]

\* profiles = {};
Cleared(profiles) == EmptyMap

ClearAssign ==
    /\ npc = "clear_cs"
    /\ profile_mapping' = Cleared(profile_mapping)
    /\ lastReg' = None
    /\ mutex' = "free"
    /\ Goto("done")
    /\ UNCHANGED <<env, trig, file, sframe>>

(* -------------------- "sched": clean_cached_profile_infos -------------- *)

\* get_connected_client_xuids
get_connected_client_xuids == connected

\* a run of the loop task: the is_server_running() test and the xuids
CleanStart_NoSessionTest ==
    /\ spc = "idle"
    /\ spc' = "clean_lock" /\ xuids' = get_connected_client_xuids
    /\ UNCHANGED <<env, trig, reg, mutex, file, nframe>>

CleanStart ==
    /\ spc = "idle"
    /\ IF ~serverRunning
       THEN UNCHANGED <<spc, xuids>>
       ELSE spc' = "clean_lock" /\ xuids' = get_connected_client_xuids
    /\ UNCHANGED <<env, trig, reg, mutex, file, nframe>>

CleanLock ==
    /\ spc = "clean_lock"
    /\ Acquire("sched")
    /\ spc' = "clean_cs"
    /\ UNCHANGED <<env, trig, reg, file, nframe, xuids>>

CleanRetain_Arms ==
    /\ spc = "clean_cs"
    /\ profile_mapping' = Retain(profile_mapping, xuids)
    /\ lastReg' = None
    /\ mutex' = "free"
    /\ spc' = "idle" /\ xuids' = {}
    /\ schedule_pcache_update
    /\ UNCHANGED <<env, file, nframe>>

\* the erase loop, the end of access() and of the task
CleanRetain ==
    /\ spc = "clean_cs"
    /\ profile_mapping' = Retain(profile_mapping, xuids)
    /\ lastReg' = None
    /\ mutex' = "free"
    /\ spc' = "idle" /\ xuids' = {}
    /\ UNCHANGED <<env, trig, file, nframe>>

(* ---------------------- "sched": the delayed task ---------------------- *)

TaskRun_ClearFirst ==
    /\ spc = "idle"
    /\ once_tasks > 0
    /\ once_tasks' = once_tasks - 1
    /\ fires' = fires + 1
    /\ update_triggered' = FALSE
    /\ spc' = "task_clear"
    /\ UNCHANGED <<env, arms, reg, mutex, file, nframe, xuids>>

\* the delay of a queued task has passed and it starts:
\* game::PCache_DeleteEntries(CONTROLLER_INDEX_FIRST)
TaskRun ==
    /\ spc = "idle"
    /\ once_tasks > 0
    /\ once_tasks' = once_tasks - 1
    /\ fires' = fires + 1
    /\ spc' = "task_clear"
    /\ UNCHANGED <<env, update_triggered, arms, reg, mutex, file, nframe, xuids>>

\* update_triggered = false; the task ends
TaskClear ==
    /\ spc = "task_clear"
    /\ update_triggered' = FALSE
    /\ arms' = 0 /\ fires' = 0
    /\ spc' = "idle"
    /\ UNCHANGED <<env, once_tasks, reg, mutex, file, nframe, xuids>>

(* ---------------------------- the game --------------------------------- *)

Connect(p) ==
    /\ p \notin connected
    /\ connected' = connected \cup {p}
    /\ UNCHANGED <<isServer, serverRunning, trig, reg, mutex, file, nframe, sframe>>

Disconnect(p) ==
    /\ p \in connected
    /\ connected' = connected \ {p}
    /\ UNCHANGED <<isServer, serverRunning, trig, reg, mutex, file, nframe, sframe>>

\* a session starts or ends
ToggleSession ==
    /\ serverRunning' = ~serverRunning
    /\ UNCHANGED <<isServer, connected, trig, reg, mutex, file, nframe, sframe>>

(* -------------------------- specification ------------------------------ *)

NetCall ==
    \/ \E id \in Ids, info \in Infos : Call_add_profile_info(id, info)
    \/ \E id \in Ids : Call_get_profile_info(id)
    \/ Call_clear_profile_infos
    \/ \E addr \in Addrs : Call_distribute_profile_infos_to_user(addr)
    \/ \E id \in Ids, info \in Infos :
          Call_add_and_distribute_profile_info(AddrOf(id), id, info)
    \/ \E origin \in {HostAddr, OtherAddr}, id \in Ids, info \in Infos :
          Receive_profileInfo(origin, id, info)
    \/ \E info \in Infos : update_profile_info(info)

NetStep ==
    \/ AddLock \/ AddUpsert \/ AddArm
    \/ distribute_profile_info
    \/ SyncLock \/ SyncSend \/ SyncUnlock \/ SyncLocal
    \/ GetLocal \/ GetLock \/ GetFind
    \/ ClearLock \/ ClearAssign
    \/ Return

SchedStep ==
    \/ CleanStart \/ CleanLock \/ CleanRetain
    \/ TaskRun \/ TaskClear

Game ==
    \/ \E p \in Peers : Connect(p) \/ Disconnect(p)
    \/ ToggleSession

Next == NetCall \/ NetStep \/ SchedStep \/ Game

Spec == Init /\ [][Next]_vars

(* ------------- the local profile store on its own ---------------------- *)

RECURSIVE Blobs(_)
\* the byte strings of length n over two byte values
Blobs(n) ==
    IF n = 0 THEN {<<>>}
    ELSE {Append(b, x) : b \in Blobs(n - 1), x \in {1, 255}}

\* files an earlier run, or anything else, may have left
StoredFiles ==
    {NoFile} \cup {FileOf(b) : b \in UNION {Blobs(n) : n \in 0..MaxFileLen}}

\* profile infos the owner may store
StoreInfos ==
    {[version |-> v, ddl |-> Pad(n, 7)] : v \in {-2, 1, 258}, n \in 0..MaxDdl}

StoreInit ==
    /\ isServer = FALSE
    /\ serverRunning = FALSE
    /\ connected = {}
    /\ profile_mapping = EmptyMap
    /\ mutex = "free"
    /\ update_triggered = FALSE
    /\ once_tasks = 0
    /\ arms = 0 /\ fires = 0
    /\ file \in StoredFiles
    /\ lastReg = None
    /\ IdleNet
    /\ IdleSched

StoreNext ==
    \/ \E info \in StoreInfos : update_profile_info(info)
    \/ Call_get_profile_info(Local)
    \/ GetLocal
    \/ Return

StoreSpec == StoreInit /\ [][StoreNext]_vars

(* -------- ingests and the delayed task on a process not hosting -------- *)

IngestInit == Init /\ ~isServer

IngestCall ==
    \/ \E id \in Ids, info \in Infos : Call_add_profile_info(id, info)
    \/ \E origin \in {HostAddr, OtherAddr}, id \in Ids, info \in Infos :
          Receive_profileInfo(origin, id, info)

IngestStep == AddLock \/ AddUpsert \/ AddArm \/ Return

IngestNext == IngestCall \/ IngestStep \/ TaskRun \/ TaskClear

\* a call that has started runs to its end; the scheduler starts a queued
\* task once its delay has passed and runs it to its end.  Nothing obliges a
\* peer to send another message.
IngestSpec ==
    /\ IngestInit /\ [][IngestNext]_vars
    /\ WF_vars(IngestStep)
    /\ WF_vars(TaskRun)
    /\ WF_vars(TaskClear)

(* ------------------------------ claims --------------------------------- *)

\* indices of the messages fn sent, in a log
SentBy(l, fn) == {i \in 1..Len(l) : l[i].ev = "send" /\ l[i].fn = fn}

\* what a call appended to its log in one step
Appended == SubSeq(log', Len(log) + 1, Len(log'))

\* C1: for an id other than the local identity, a get_profile_info(id) whose
\* lookup directly follows the upsert of add_profile_info(id, info), with no
\* other registry operation in between, returns exactly info, whatever was
\* stored for id before.
C1_AddThenGet ==
    (nop = "get" /\ npc = "done" /\ nid # Local /\ after # None /\ after[1].id = nid)
        => result = Some(after[1].info)

W_C1 ==
    /\ nop = "get" /\ npc = "done" /\ nid # Local
    /\ after # None /\ after[1].id = nid
    /\ result = Some(after[1].info)

\* C2: add_profile_info(local identity, info) neither upserts nor arms the
\* trigger (its log stays empty, also as a step of the join composite and from
\* the message handler), and the registry never holds the local identity.
C2_SelfFiltered ==
    /\ Local \notin DOMAIN profile_mapping
    /\ (nop \in {"add", "handler"} /\ nid = Local) => (npc = "done" /\ log = <<>>)
    /\ (nop = "join" /\ nid = Local) =>
          \A i \in 1..Len(log) : log[i].ev \notin {"upsert", "arm"}

W_C2 ==
    /\ nop = "add" /\ nid = Local /\ npc = "done" /\ log = <<>>
    /\ DOMAIN profile_mapping # {}

\* C3: distribute_profile_info(user_id, info) sends nothing when user_id is
\* the local identity; otherwise it sends exactly one (user_id, info) message
\* to each connected client and to no other address; the registry is unchanged.
C3_Broadcast ==
    [][ (npc = "bcast" /\ npc' # "bcast") =>
          /\ profile_mapping' = profile_mapping
          /\ IF nid = Local
             THEN Appended = <<>>
             ELSE /\ Len(Appended) = Cardinality(connected)
                  /\ {Appended[i] : i \in 1..Len(Appended)} =
                        {SendEv("broadcast", AddrOf(p), nid, ninfo) : p \in connected}
      ]_vars

W_C3 ==
    /\ nop = "join" /\ npc = "done" /\ nid # Local
    /\ Cardinality(SentBy(log, "broadcast")) = 2

\* C4: the sweep that runs with connection set xuids leaves every entry whose
\* id is not in xuids absent, every entry whose id is in xuids as it was, and
\* adds no entry.
C4_Sweep ==
    [][ (spc = "clean_cs" /\ spc' # "clean_cs") =>
          /\ DOMAIN profile_mapping' \subseteq DOMAIN profile_mapping
          /\ \A id \in DOMAIN profile_mapping :
                IF id \in xuids
                THEN Find(profile_mapping', id) = Some(profile_mapping[id])
                ELSE Find(profile_mapping', id) = None
      ]_vars

\* the sweep is in its critical section with an entry to erase and one to keep
W_C4 ==
    /\ spc = "clean_cs"
    /\ \E a \in DOMAIN profile_mapping : a \notin xuids
    /\ \E b \in DOMAIN profile_mapping : b \in xuids

\* C5: not hosting, the arms of one window (arms >= 1 of them) have exactly
\* one delayed task, which calls PCache_DeleteEntries exactly once before it
\* clears the flag, and the flag is clear again once the window is closed;
\* hosting, no arm sets the flag, queues a task or causes a firing.
C5_Debounce ==
    /\ fires = (IF spc = "task_clear" THEN 1 ELSE 0)
    /\ (arms >= 1) => (once_tasks + (IF spc = "task_clear" THEN 1 ELSE 0) = 1)
    /\ (arms >= 1) <=> update_triggered
    /\ (arms = 0) => (once_tasks = 0 /\ spc # "task_clear")
    /\ isServer => (~update_triggered /\ once_tasks = 0 /\ fires = 0)

W_C5 ==
    /\ ~isServer /\ spc = "task_clear" /\ fires = 1 /\ arms >= 2

\* C6: in add_and_distribute_profile_info every full-sync message precedes
\* the upsert of id, and the upsert precedes every broadcast message.
C6_JoinOrder ==
    (nop = "join") =>
        \A i, j \in 1..Len(log) :
            /\ (i \in SentBy(log, "to_user") /\ log[j].ev = "upsert") => i < j
            /\ (i \in SentBy(log, "to_user") /\ j \in SentBy(log, "broadcast")) => i < j
            /\ (log[i].ev = "upsert" /\ j \in SentBy(log, "broadcast")) => i < j

W_C6 ==
    /\ nop = "join" /\ npc = "done"
    /\ \E i, j, k \in 1..Len(log) :
          /\ i < j /\ j < k
          /\ i \in SentBy(log, "to_user") /\ log[i].to = naddr
          /\ log[j].ev = "upsert" /\ log[j].id = nid
          /\ k \in SentBy(log, "broadcast") /\ log[k].to = naddr /\ log[k].id = nid

\* C7: load_profile_info is absent exactly when the file does not exist or is
\* shorter than the 4 bytes of the version; otherwise the version is the first
\* 4 bytes and the payload the rest.
C7_LoadContract ==
    (nop = "get" /\ nid = Local /\ npc = "done") =>
        IF ~file.exists \/ Len(file.data) < VersionSize
        THEN result = None
        ELSE result = Some([version |-> DecodeVersion(SubSeq(file.data, 1, VersionSize)),
                            ddl     |-> SubSeq(file.data, VersionSize + 1, Len(file.data))])

\* the part of the iteration done so far: one message to addr per visited entry
SyncedSoFar(l, visited, profiles, addr) ==
    /\ Cardinality(SentBy(l, "to_user")) = Cardinality(visited)
    /\ {<<l[i].id, l[i].info>> : i \in SentBy(l, "to_user")} =
          {<<id, profiles[id]>> : id \in visited}
    /\ \A i \in 1..Len(l) : l[i].ev = "send" /\ l[i].to = addr

\* C8: distribute_profile_infos_to_user(addr) sends to addr, and only to addr,
\* exactly one (id, info) message per registry entry; the registry is
\* unchanged; then it sends the local identity with the loaded local profile
\* exactly when the process is not hosting and the local profile loads.
C8_FullSync ==
    [][ /\ (npc' = "sync_cs") =>
              SyncedSoFar(log', (DOMAIN profile_mapping') \ todo', profile_mapping', naddr')
        /\ (npc \in {"sync_lock", "sync_cs", "sync_local"} /\ nframe' # nframe) =>
              profile_mapping' = profile_mapping
        /\ (npc = "sync_cs" /\ npc' # "sync_cs") => (todo = {} /\ log' = log)
        /\ (npc = "sync_local" /\ npc' # "sync_local") =>
              IF ~isServer /\ load_profile_info(file) # None
              THEN Appended = <<SendEv("to_user", naddr, Local, load_profile_info(file)[1])>>
              ELSE Appended = <<>>
      ]_vars

W_C8 ==
    /\ nop = "sync" /\ npc = "done" /\ ~isServer
    /\ Len(log) = 3 /\ log[3].id = Local /\ log[1].id # log[2].id

InCS(ctx) ==
    IF ctx = "net" THEN npc \in {"add_cs", "get_cs", "clear_cs", "sync_cs"}
    ELSE spc = "clean_cs"

AtLock(ctx) ==
    IF ctx = "net" THEN npc \in {"add_lock", "get_lock", "clear_lock", "sync_lock"}
    ELSE spc = "clean_lock"

\* C9: at most one context is inside a registry critical section, the mutex is
\* held exactly by the context inside one, and there is no deadlock: the
\* holder can always take a step, and a context waiting on a free mutex can
\* take it.
C9_MutualExclusion ==
    /\ ~(InCS("net") /\ InCS("sched"))
    /\ (mutex = "net") <=> InCS("net")
    /\ (mutex = "sched") <=> InCS("sched")
    /\ (mutex = "net") => ENABLED NetStep
    /\ (mutex = "sched") => ENABLED SchedStep
    /\ (mutex = "free" /\ AtLock("net")) => ENABLED NetStep
    /\ (mutex = "free" /\ AtLock("sched")) => ENABLED SchedStep

\* the scheduler context waits while the network context is inside
W_C9 == InCS("net") /\ AtLock("sched")

\* C10: clear_profile_infos leaves the registry empty whatever it held (so it
\* changes nothing when it was empty), sends nothing, does not arm the trigger
\* and does not touch the file.
C10_Clear ==
    [][ (nop = "clear" /\ nframe' # nframe /\ npc # "done") =>
          /\ IF npc = "clear_cs"
             THEN profile_mapping' = EmptyMap
             ELSE profile_mapping' = profile_mapping
          /\ log' = <<>>
          /\ UNCHANGED <<file, update_triggered, once_tasks, arms>>
      ]_vars

W_C10 ==
    /\ nop = "clear" /\ npc = "done"
    /\ profile_mapping = EmptyMap /\ log = <<>>

\* C11: no operation sends a message or arms the scheduler while it holds the
\* registry critical section: whenever a step of the network context appends
\* a send or an arm to its log, the mutex is not held by that context.
C11_NoSendInCS ==
    [][ \A i \in 1..Len(Appended) :
            Appended[i].ev \in {"send", "arm"} => mutex # "net"
      ]_vars

\* C12: during add_and_distribute_profile_info(addr, id, info) for a newcomer
\* other than the local identity, no full-sync message is keyed by id,
\* whatever the registry held when the call started.
C12_NoEcho ==
    (nop = "join" /\ nid \in Peers) =>
        \A i \in SentBy(log, "to_user") : log[i].id # nid

\* C12 (amended): a full-sync message keyed by the newcomer's id is sent only
\* from inside the full sync's critical section, before the newcomer's own
\* info is ingested, and only when the registry already holds an entry for id
\* at that moment (left by an earlier join); the message carries that entry.
C12_EchoOnlyStale ==
    [][ (nop = "join" /\ nid \in Peers) =>
          \A i \in 1..Len(Appended) :
              (Appended[i].ev = "send" /\ Appended[i].fn = "to_user"
                  /\ Appended[i].id = nid) =>
                  /\ npc = "sync_cs"
                  /\ \A j \in 1..Len(log) : log[j].ev # "upsert"
                  /\ nid \in DOMAIN profile_mapping
                  /\ Appended[i].info = profile_mapping[nid]
      ]_vars

\* a join whose full sync ran over a registry without an entry for the
\* newcomer: other entries were sent, none keyed by the newcomer
W_C12 ==
    /\ nop = "join" /\ npc = "done" /\ nid \in Peers
    /\ SentBy(log, "to_user") # {}
    /\ \A i \in SentBy(log, "to_user") : log[i].id # nid
    /\ \E j \in 1..Len(log) : log[j].ev = "upsert"

\* delayed tasks that are queued or executing
DelayedTasks(queued, pc) == queued + (IF pc = "task_clear" THEN 1 ELSE 0)

\* C13: the debounce is a two-state machine: at most one delayed task is
\* queued or executing, update_triggered is set exactly when there is one, an
\* arm while it is set queues nothing, and the flag is only cleared by the
\* step that ends the delayed task, after PCache_DeleteEntries has run.
C13_TwoState ==
    [][ /\ DelayedTasks(once_tasks', spc') <= 1
        /\ update_triggered' <=> (DelayedTasks(once_tasks', spc') = 1)
        /\ (update_triggered /\ npc = "add_arm" /\ npc' # npc) =>
              (update_triggered' /\ once_tasks' = once_tasks)
        /\ (update_triggered /\ ~update_triggered') =>
              (spc = "task_clear" /\ fires = 1 /\ spc' = "idle")
      ]_vars

\* the delayed task is executing and an arm that came while Pending queued
\* nothing
W_C13 ==
    /\ spc = "task_clear" /\ update_triggered
    /\ arms >= 2 /\ once_tasks = 0

\* C14: the sweep changes the registry only while the process is a server
\* and a session is running.
C14_OnlyHosting ==
    [][ (spc = "clean_cs" /\ profile_mapping' # profile_mapping) =>
            (isServer /\ serverRunning)
      ]_vars

\* C14 (amended): a tick of clean_cached_profile_infos goes on to the sweep
\* only when it finds a session running, whatever is_server() says, and the
\* scheduler context changes the registry in no other step than the sweep's
\* critical section.
C14_SweepNeedsSession ==
    [][ /\ (spc = "idle" /\ spc' = "clean_lock") => serverRunning
        /\ (sframe' # sframe /\ profile_mapping' # profile_mapping) =>
              spc = "clean_cs"
      ]_vars

\* a process that is not a server sweeps an entry of a peer that left
W_C14 ==
    /\ ~isServer /\ spc = "clean_cs"
    /\ DOMAIN profile_mapping \ xuids # {}

\* one step of clean_cached_profile_infos past its session test
SweepStep ==
    \/ spc = "idle" /\ spc' = "clean_lock"
    \/ spc \in {"clean_lock", "clean_cs"} /\ spc' # spc

\* C15: the sweep sends nothing, neither arms nor fires the trigger and does
\* not touch the file; it only removes entries from the registry.
C15_SweepPure ==
    [][ SweepStep =>
          /\ UNCHANGED <<nframe, file, trig>>
          /\ DOMAIN profile_mapping' \subseteq DOMAIN profile_mapping
          /\ \A id \in DOMAIN profile_mapping' :
                profile_mapping'[id] = profile_mapping[id]
      ]_vars

\* the sweep is about to erase an entry while the trigger is Pending
W_C15 ==
    /\ spc = "clean_cs" /\ serverRunning
    /\ DOMAIN profile_mapping \ xuids # {}
    /\ update_triggered /\ once_tasks = 1

\* C16: get_profile_info() after update_profile_info(info) returns info (same
\* version, same payload), also for an empty payload or one shorter than 4
\* bytes.
C16_RoundTrip ==
    (nop = "get" /\ nid = Local /\ npc = "done") =>
        \A info \in StoreInfos :
            (file = FileOf(StoredBytes(info))) => result = Some(info)

\* C17: not hosting, every upsert by add_profile_info is eventually followed
\* by a PCache_DeleteEntries that starts after it.  Taken at the interleaving
\* the claim names: when the upsert is about to happen (the ingest is inside
\* its critical section) and the delayed task has already run its action but
\* not yet cleared the flag, the task ends and a delayed task starts again.
C17_UpsertThenFiring ==
    [] ( (~isServer /\ npc = "add_cs" /\ spc = "task_clear")
            => <> (spc = "idle" /\ <> (spc = "task_clear")) )

\* C18: the step that ends the sweep's critical section erases no entry of a
\* participant that is connected at that moment.
C18_KeepsConnected ==
    [][ (spc = "clean_cs" /\ spc' # spc) =>
            \A id \in DOMAIN profile_mapping \cap connected :
                /\ id \in DOMAIN profile_mapping'
                /\ profile_mapping'[id] = profile_mapping[id]
      ]_vars

\* C19: a "profileInfo" message is handled only on a process that is not a
\* server; one whose origin is not the party host ends at once, with no upsert
\* and no arm, so only a message of the host gets to add_profile_info.
C19_HostOnly ==
    (nop = "handler") =>
        /\ ~isServer
        /\ (naddr # HostAddr) => (npc = "done" /\ log = <<>>)
        /\ (npc \in {"add_lock", "add_cs", "add_arm"}) => naddr = HostAddr

\* a message of another origin for an unknown peer was dropped: the peer is
\* still unknown
W_C19 ==
    /\ nop = "handler" /\ npc = "done" /\ naddr = OtherAddr
    /\ nid \in Peers /\ nid \notin DOMAIN profile_mapping
    /\ log = <<>>

====
